---- MODULE Spec2Model ----
(***************************************************************************)
(* The bytecode virtual machine of src/src/vm.rs as a state machine.       *)
(*                                                                         *)
(* The state is the VM struct (chunk, ip, stack, stack_top, interner,      *)
(* globals), the local print_outputs of VM::run, the standard output       *)
(* channel written by println!, and the outcome of run (a returned Result  *)
(* or a panic).  There is one action per arm of the dispatch `match` of    *)
(* VM::run, plus one for read_byte indexing past the end of chunk.code.    *)
(*                                                                         *)
(* The modules chunk, interner, value, tensor and compiler are not part of *)
(* the source tree at hand; the part of them the VM calls into is modelled *)
(* from their documented contract, as the sections below say.  So is       *)
(* VM::interpret, which run_repl of src/src/main.rs calls line after line  *)
(* on one VM (ReplSpec).                                                   *)
(***************************************************************************)
EXTENDS Integers, Sequences, FiniteSets, TLC

VARIABLES
    chunk,          \* VM.chunk: [code: Seq(VectorType), constants: Seq(ValueType)]
    ip,             \* VM.ip: index (0-based) of the next element of chunk.code
    stack,          \* VM.stack: [0..STACK_MAX-1 -> ValueType]
    stack_top,      \* VM.stack_top: number of live slots
    interner,       \* VM.interner: Seq(STRING); handle h names interner[h]
    globals,        \* VM.globals: function from identifier handles to values
    tensors,        \* the tensor objects reachable through Tensor values
    print_outputs,  \* the local Vec of VM::run
    stdout,         \* what println! has written, one value per line
    pc,             \* "run" in the loop, "returned" after a return, "panicked"
    result,         \* the Result returned by run (NoResult while in the loop)
    fault,          \* the kind of panic that unwound run ("none" otherwise)
    executed        \* history: one entry per fetched instruction (see LogEntry)

vars == <<chunk, ip, stack, stack_top, interner, globals, tensors,
          print_outputs, stdout, pc, result, fault, executed>>

\* ------------------------------------------------------------------------
\* Program constants and the bounds of the model
\* ------------------------------------------------------------------------

STACK_MAX == 256

\* Longest chunk of the family of all element sequences (RawChunks).
MaxRawLen == 2

\* Most statements in a program of the global-variable family (StmtPrograms).
MaxStmts == 3

\* Operands of the deepest right-nested power expression (DeepPrograms).
MaxNest == 257

\* Most statements in a program of the global-variable family among the runs
\* checked for termination (FairSpec).
MaxFairStmts == 2

\* Most calls of interpret on one VM in an interactive session (ReplSpec).
MaxCalls == 3

\* ------------------------------------------------------------------------
\* value::ValueType.  The variants are those vm.rs matches on; the operators
\* are those of value.rs, from their documented contract.
\* ------------------------------------------------------------------------

Nil == [tag |-> "Nil"]

Boolean(b) == [tag |-> "Boolean", b |-> b]

\* Number(f64) over the rationals num/den in lowest terms, den > 0.
Rat(num, den) == [tag |-> "Number", num |-> num, den |-> den]

Number(n) == Rat(n, 1)

String(idx) == [tag |-> "String", idx |-> idx]

Identifier(idx) == [tag |-> "Identifier", idx |-> idx]

Tensor(ref) == [tag |-> "Tensor", ref |-> ref]

\* What an operator of value.rs yields when its operands are of variants it is
\* not defined for.
TypeFault == [tag |-> "TypeFault"]

Abs(n) == IF n < 0 THEN -n ELSE n

RECURSIVE Gcd(_, _)
Gcd(a, b) == IF b = 0 THEN a ELSE Gcd(b, a % b)

Norm(num, den) ==
    LET g == Gcd(Abs(num), Abs(den))
        s == IF den < 0 THEN -1 ELSE 1
    IN  Rat((s * num) \div g, (s * den) \div g)

RECURSIVE IntPow(_, _)
IntPow(b, e) == IF e = 0 THEN 1 ELSE b * IntPow(b, e - 1)

IsNumber(v) == v.tag = "Number"

\* impl Add for ValueType
ValueAdd(a, b) ==
    IF IsNumber(a) /\ IsNumber(b)
    THEN Norm(a.num * b.den + b.num * a.den, a.den * b.den)
    ELSE TypeFault

\* impl Sub for ValueType
ValueSub(a, b) ==
    IF IsNumber(a) /\ IsNumber(b)
    THEN Norm(a.num * b.den - b.num * a.den, a.den * b.den)
    ELSE TypeFault

\* impl Mul for ValueType
ValueMul(a, b) ==
    IF IsNumber(a) /\ IsNumber(b)
    THEN Norm(a.num * b.num, a.den * b.den)
    ELSE TypeFault

\* impl Div for ValueType.  Division by zero (an IEEE infinity or NaN) is
\* outside the modelled number range: no modelled program divides by zero.
ValueDiv(a, b) ==
    CASE IsNumber(a) /\ IsNumber(b) /\ b.num # 0 ->
            Norm(a.num * b.den, a.den * b.num)
      [] ~(IsNumber(a) /\ IsNumber(b)) -> TypeFault

\* ValueType::pow, base a and exponent b.  Exponents are integers in every
\* modelled program.
ValuePow(a, b) ==
    CASE IsNumber(a) /\ IsNumber(b) /\ b.den = 1 /\ b.num >= 0 ->
            Norm(IntPow(a.num, b.num), IntPow(a.den, b.num))
      [] IsNumber(a) /\ IsNumber(b) /\ b.den = 1 /\ b.num < 0 /\ a.num # 0 ->
            Norm(IntPow(a.den, -b.num), IntPow(a.num, -b.num))
      [] ~(IsNumber(a) /\ IsNumber(b)) -> TypeFault

\* impl Neg for ValueType
ValueNeg(a) == IF IsNumber(a) THEN Rat(-a.num, a.den) ELSE TypeFault

\* impl Not for ValueType: Nil and Boolean(false) are false, all else true.
ValueNot(a) == Boolean(a = Nil \/ a = Boolean(FALSE))

\* impl PartialEq for ValueType: structural; Tensor by identity.
ValueEq(a, b) == a = b

\* impl PartialOrd for ValueType, a > b
ValueGreater(a, b) ==
    IF IsNumber(a) /\ IsNumber(b)
    THEN Boolean(a.num * b.den > b.num * a.den)
    ELSE TypeFault

\* impl PartialOrd for ValueType, a < b
ValueLess(a, b) ==
    IF IsNumber(a) /\ IsNumber(b)
    THEN Boolean(a.num * b.den < b.num * a.den)
    ELSE TypeFault

\* ------------------------------------------------------------------------
\* interner::Interner, from its documented contract
\* ------------------------------------------------------------------------

\* Interner::lookup
Lookup(table, idx) == table[idx]

IsInterned(table, text) == \E i \in 1..Len(table) : table[i] = text

\* Interner::intern_string: the table after interning text.
InternTable(table, text) ==
    IF IsInterned(table, text) THEN table ELSE Append(table, text)

\* Interner::intern_string: the handle it returns.
InternHandle(table, text) ==
    IF IsInterned(table, text)
    THEN CHOOSE i \in 1..Len(table) : table[i] = text
    ELSE Len(table) + 1

\* ------------------------------------------------------------------------
\* tensor::Tensor, from its documented contract
\* ------------------------------------------------------------------------

\* A tensor object: its data, its accumulated gradient and the tensor it was
\* computed from by relu (0: none).
TensorNode(data, grad, parent) == [data |-> data, grad |-> grad, parent |-> parent]

Zeros(n) == [i \in 1..n |-> 0]

Ones(n) == [i \in 1..n |-> 1]

\* Tensor::relu: the heap with the result appended; the result is its last node.
TensorRelu(heap, ref) ==
    LET d == heap[ref].data
    IN  Append(heap, TensorNode([i \in 1..Len(d) |-> IF d[i] > 0 THEN d[i] ELSE 0],
                                Zeros(Len(d)), ref))

\* Propagation of the gradient of node ref to the chain of its ancestors.
RECURSIVE Propagate(_, _)
Propagate(heap, ref) ==
    LET p == heap[ref].parent
    IN  IF p = 0 THEN heap
        ELSE LET d == heap[p].data
                 g == [i \in 1..Len(d) |->
                          heap[p].grad[i] + (IF d[i] > 0 THEN 1 ELSE 0) * heap[ref].grad[i]]
             IN  Propagate([heap EXCEPT ![p].grad = g], p)

\* Tensor::backward: seeds the gradient of ref with ones and propagates it.
TensorBackward(heap, ref) ==
    Propagate([heap EXCEPT ![ref].grad = Ones(Len(heap[ref].data))], ref)

\* Tensor::gradient: the heap with a tensor holding the gradient appended.
TensorGradient(heap, ref) ==
    LET g == heap[ref].grad
    IN  Append(heap, TensorNode(g, Zeros(Len(g)), 0))

\* ------------------------------------------------------------------------
\* chunk::Chunk
\* ------------------------------------------------------------------------

\* chunk::VectorType::Code(op)
Code(op) == [kind |-> "Code", op |-> op]

\* chunk::VectorType::Constant(idx)
Constant(idx) == [kind |-> "Constant", idx |-> idx]

OpCodes ==
    {"OpReturn", "OpAdd", "OpSubtract", "OpMultiply", "OpDivide", "OpPower",
     "OpNegate", "OpNil", "OpTrue", "OpFalse", "OpNot", "OpEqualEqual",
     "OpGreater", "OpLess", "OpPrint", "OpPop", "OpConstant", "OpDefineGlobal",
     "OpGetGlobal", "OpSetGlobal", "OpCall"}

\* The opcodes that read the element after them as an operand.
OperandOps == {"OpConstant", "OpDefineGlobal", "OpGetGlobal", "OpSetGlobal", "OpCall"}

\* ------------------------------------------------------------------------
\* Programs: the chunk and interner handed to VM::init.  The emission rules
\* are those of the compiler, from its documented contract.
\* ------------------------------------------------------------------------

\* The interner as the compiler leaves it: identifiers and string literals.
BaseInterner == <<"x", "y", "relu", "backward", "grad", "foo", "a", "b", "ab">>

Handle(text) == CHOOSE i \in 1..Len(BaseInterner) : BaseInterner[i] = text

\* The tensor a tensor literal of the constant pool refers to.
BaseTensors == <<TensorNode(<<-1, 2>>, <<0, 0>>, 0)>>

\* chunk.constants
Pool ==
    <<Number(1), Number(2),
      String(Handle("a")), String(Handle("b")), String(Handle("ab")),
      Identifier(Handle("x")), Identifier(Handle("y")),
      Identifier(Handle("relu")), Identifier(Handle("backward")),
      Identifier(Handle("grad")), Identifier(Handle("foo")),
      Tensor(1)>>

\* The index (0-based, as in Constant(idx)) of a value of the pool.
K(v) == (CHOOSE i \in 1..Len(Pool) : Pool[i] = v) - 1

Id(text) == K(Identifier(Handle(text)))

\* The operands of the family of all element sequences: a constant of each
\* variant met by an operand-taking arm, and Constant(Len(Pool)), out of the pool.
RawOperands ==
    {Constant(K(Number(1))), Constant(K(String(Handle("a")))), Constant(K(Tensor(1))),
     Constant(Id("x")), Constant(Id("relu")), Constant(Len(Pool))}

\* Every element a chunk of that family may hold.
RawElements == {Code(op) : op \in OpCodes} \cup RawOperands

\* Family 1: every element sequence of 1..MaxRawLen elements.
RawChunks == UNION {[1..n -> RawElements] : n \in 1..MaxRawLen}

\* The compiler's emission rules (expressions).
Lit(v) == <<Code("OpConstant"), Constant(K(v))>>

Var(name) == <<Code("OpGetGlobal"), Constant(Id(name))>>

Bin(l, op, r) == l \o r \o <<Code(op)>>

Unary(op, e) == e \o <<Code(op)>>

Call(recv, name) == recv \o <<Code("OpCall"), Constant(Id(name))>>

Assign(name, e) == e \o <<Code("OpSetGlobal"), Constant(Id(name))>>

\* The compiler's emission rules (statements).
PrintStmt(e) == e \o <<Code("OpPrint")>>

ExprStmt(e) == e \o <<Code("OpPop")>>

VarDecl(name, e) == e \o <<Code("OpDefineGlobal"), Constant(Id(name))>>

EndProgram(code) == code \o <<Code("OpReturn")>>

BinaryOps ==
    {"OpAdd", "OpSubtract", "OpMultiply", "OpDivide", "OpPower", "OpEqualEqual",
     "OpGreater", "OpLess"}

Atoms ==
    {Lit(v) : v \in {Number(1), Number(2), String(Handle("a")), String(Handle("b")),
                     String(Handle("ab")), Tensor(1)}}
    \cup {Var("x"), Var("y")}
    \cup {<<Code("OpNil")>>, <<Code("OpTrue")>>, <<Code("OpFalse")>>}

\* Expressions of at most one operator over atoms.
Exprs ==
    Atoms
    \cup {Bin(l, op, r) : l \in Atoms, op \in BinaryOps, r \in Atoms}
    \cup {Unary(op, e) : op \in {"OpNegate", "OpNot"}, e \in Atoms}
    \cup {Call(e, name) : e \in Atoms, name \in {"relu", "backward", "grad", "foo"}}
    \cup {Assign(name, e) : name \in {"x", "y"}, e \in Atoms}

\* Family 2: the programs of one statement over Exprs.
ExprPrograms ==
    {EndProgram(PrintStmt(e)) : e \in Exprs}
    \cup {EndProgram(ExprStmt(e)) : e \in Exprs}
    \cup {EndProgram(VarDecl("x", e)) : e \in Exprs}

\* The statements of the programs about global variables.
GlobalStmts ==
    {VarDecl("x", Lit(Number(1))),
     VarDecl("x", Lit(Number(2))),
     VarDecl("y", Lit(String(Handle("a")))),
     VarDecl("y", Lit(Tensor(1))),
     VarDecl("y", Call(Var("y"), "relu")),
     ExprStmt(Assign("x", Lit(Number(2)))),
     PrintStmt(Var("x")),
     PrintStmt(Var("y")),
     PrintStmt(Call(Var("y"), "relu")),
     PrintStmt(Call(Var("y"), "grad")),
     ExprStmt(Call(Var("y"), "backward"))}

RECURSIVE Flatten(_)
Flatten(seqs) == IF seqs = <<>> THEN <<>> ELSE Head(seqs) \o Flatten(Tail(seqs))

\* The programs of 1..most statements of GlobalStmts.
StmtProgramsUpTo(most) ==
    {EndProgram(Flatten(ss)) : ss \in UNION {[1..n -> GlobalStmts] : n \in 1..most}}

\* Family 3: the programs of 1..MaxStmts statements of GlobalStmts.
StmtPrograms == StmtProgramsUpTo(MaxStmts)

\* e ^ e ^ ... ^ e with n operands, each of code e.  The power operator is
\* right-associative: the code of e ^ r is Bin(e, "OpPower", r), so that every
\* operand is pushed before the first OpPower.
PowerChain(e, n) ==
    [i \in 1..(n * Len(e)) |-> e[((i - 1) % Len(e)) + 1]]
    \o [i \in 1..(n - 1) |-> Code("OpPower")]

\* Family 4: a print of a power chain of numbers that fills the stack, and of
\* the deepest chains of numbers and of nil.
DeepPrograms ==
    {EndProgram(PrintStmt(PowerChain(Lit(Number(1)), n))) : n \in {STACK_MAX, MaxNest}}
    \cup {EndProgram(PrintStmt(PowerChain(<<Code("OpNil")>>, MaxNest)))}

\* The programs of the shape the compiler emits.
CompiledPrograms == ExprPrograms \cup StmtPrograms \cup DeepPrograms

\* The opcodes that name a global variable by their operand.
GlobalOps == {"OpDefineGlobal", "OpGetGlobal", "OpSetGlobal"}

\* Family 5: a value is pushed, and then a global opcode names a constant of
\* the pool that is not an Identifier.
MistypedPrograms ==
    {EndProgram(Lit(Number(2)) \o <<Code(op), Constant(K(c))>>) :
        op \in GlobalOps, c \in {Number(1), String(Handle("a")), Tensor(1)}}

Programs == RawChunks \cup CompiledPrograms \cup MistypedPrograms

\* The statements an interactive session takes its lines from.
ReplStmts ==
    {VarDecl("x", Lit(Number(1))),
     VarDecl("y", Lit(String(Handle("a")))),
     ExprStmt(Assign("x", Lit(Number(2)))),
     PrintStmt(Var("x")),
     PrintStmt(Var("y"))}

\* The chunks of the lines of an interactive session, one statement a line.
ReplLines == {EndProgram(stmt) : stmt \in ReplStmts}

\* The programs of the runs checked for termination: those of every family,
\* with at most MaxFairStmts statements in those of family 3.
FairPrograms ==
    RawChunks \cup ExprPrograms \cup StmtProgramsUpTo(MaxFairStmts) \cup DeepPrograms
    \cup MistypedPrograms

\* ------------------------------------------------------------------------
\* vm::Result
\* ------------------------------------------------------------------------

\* No Result yet: run is in its loop, or was unwound by a panic.
NoResult == [kind |-> "None"]

\* Result::Ok(Vec<ValueType>)
Ok(outputs) == [kind |-> "Ok", outputs |-> outputs]

\* A return that drops the bindings of globals when it returns a RuntimeErr.
return_DropsGlobals(m, res) ==
    [m EXCEPT !.pc = "returned", !.result = res,
              !.globals = IF res.kind = "RuntimeErr" THEN [h \in {} |-> Nil] ELSE @]

\* A RuntimeErr variant that also carries an output sequence.
RuntimeErr_CarryingOutputs(message) ==
    [kind |-> "RuntimeErr", message |-> message, outputs |-> <<>>]

\* Result::RuntimeErr(String)
RuntimeErr(message) == [kind |-> "RuntimeErr", message |-> message]

\* ------------------------------------------------------------------------
\* vm::VM.  The helpers take and yield the machine as a record m, so that
\* the calls of an arm compose in the order the code makes them; a machine
\* that has returned or panicked passes through the calls that follow.
\* ------------------------------------------------------------------------

\* The machine of the current state.
self ==
    [chunk |-> chunk, ip |-> ip, stack |-> stack, stack_top |-> stack_top,
     interner |-> interner, globals |-> globals, tensors |-> tensors,
     print_outputs |-> print_outputs, stdout |-> stdout,
     pc |-> pc, result |-> result, fault |-> fault]

\* A panic (an index out of bounds, an arithmetic overflow of usize, a value
\* operator applied to variants it rejects) unwinds run: no Result is returned.
panic(m, kind) == [m EXCEPT !.pc = "panicked", !.fault = kind]

\* `return Result::...` inside run.
return(m, res) == [m EXCEPT !.pc = "returned", !.result = res]

Live(m) == m.pc = "run"

\* read_byte that leaves ip where it is.
read_byte_Stays(m) ==
    IF ~Live(m) THEN m
    ELSE IF m.ip >= Len(m.chunk.code) THEN panic(m, "code index out of bounds")
    ELSE m

\* VM::read_byte: chunk.code[ip] is indexed before ip is advanced.
read_byte(m) ==
    IF ~Live(m) THEN m
    ELSE IF m.ip >= Len(m.chunk.code) THEN panic(m, "code index out of bounds")
    ELSE [m EXCEPT !.ip = @ + 1]

\* The element read_byte returns when called on m.
byte(m) == m.chunk.code[m.ip + 1]

\* VM::push: stack[stack_top] is indexed before stack_top is advanced.
push(m, value) ==
    IF ~Live(m) THEN m
    ELSE IF m.stack_top >= STACK_MAX THEN panic(m, "stack overflow")
    ELSE [m EXCEPT !.stack = [@ EXCEPT ![m.stack_top] = value], !.stack_top = @ + 1]

\* VM::pop: `stack_top -= 1` on 0 overflows usize: a panic in a build with
\* overflow checks, and otherwise a wrap to 2^64 - 1 and then a panic of the
\* indexing stack[stack_top].
pop(m) ==
    IF ~Live(m) THEN m
    ELSE IF m.stack_top = 0 THEN panic(m, "stack underflow")
    ELSE [m EXCEPT !.stack_top = @ - 1]

\* VM::peek as a step: it panics like pop when fewer than distance + 1 values
\* are on the stack, and changes nothing otherwise.
peek(m, distance) ==
    IF ~Live(m) THEN m
    ELSE IF m.stack_top - 1 - distance < 0 THEN panic(m, "stack underflow")
    ELSE m

\* The value pop or peek(distance) returns when called on m.
at(m, distance) == m.stack[m.stack_top - 1 - distance]

\* VM::read_constant as a step: chunk.constants[index] panics out of the pool.
read_constant(m, index) ==
    IF ~Live(m) THEN m
    ELSE IF index >= Len(m.chunk.constants) THEN panic(m, "constant index out of bounds")
    ELSE m

\* The value read_constant returns.
constant(m, index) == m.chunk.constants[index + 1]

\* get_constant!: a RuntimeErr unless the element is a Constant.
get_constant(m, element) ==
    IF ~Live(m) THEN m
    ELSE IF element.kind = "Constant" THEN read_constant(m, element.idx)
    ELSE return(m, RuntimeErr("Invalid constant index"))

\* concatenate with the two texts joined in the order they are popped.
concatenate_Swapped(m) ==
    LET m2 == pop(pop(m))
        b == at(m, 0)
        a == at(m, 1)
    IN  IF ~Live(m2) THEN m2
        ELSE IF a.tag = "String" /\ b.tag = "String"
        THEN LET res == Lookup(m.interner, b.idx) \o Lookup(m.interner, a.idx)
             IN  push([m2 EXCEPT !.interner = InternTable(@, res)],
                      String(InternHandle(m.interner, res)))
        ELSE m2

\* VM::concatenate
concatenate(m) ==
    LET m2 == pop(pop(m))
        b == at(m, 0)
        a == at(m, 1)
    IN  IF ~Live(m2) THEN m2
        ELSE IF a.tag = "String" /\ b.tag = "String"
        THEN LET res == Lookup(m.interner, a.idx) \o Lookup(m.interner, b.idx)
             IN  push([m2 EXCEPT !.interner = InternTable(@, res)],
                      String(InternHandle(m.interner, res)))
        ELSE m2

\* `let b = pop!(); let a = pop!(); push!(a op b)`, where r is a op b for the
\* a and b the two pops return (it is read only when both pops have succeeded).
\* The arm has no return of a RuntimeErr: an operator that rejects its operands
\* unwinds run.
binary(m, r) ==
    LET m2 == pop(pop(m))
    IN  IF ~Live(m2) THEN m2
        ELSE IF r = TypeFault THEN panic(m2, "type error") ELSE push(m2, r)

\* `let value = pop!(); push!(op value)`, where r is op value.
unary(m, r) ==
    LET m1 == pop(m)
    IN  IF ~Live(m1) THEN m1
        ELSE IF r = TypeFault THEN panic(m1, "type error") ELSE push(m1, r)

\* HashMap::insert on globals
insert(m, idx, value) ==
    [m EXCEPT !.globals = [h \in DOMAIN @ \cup {idx} |-> IF h = idx THEN value ELSE @[h]]]

\* ------------------------------------------------------------------------
\* The arms of the `match instruction` of VM::run.  Each takes the machine m
\* as read_byte left it after fetching the instruction.
\* ------------------------------------------------------------------------

OpReturnArm(m) == return(m, Ok(m.print_outputs))

OpAddArm(m) ==
    LET m0 == peek(m, 0)
    IN  IF ~Live(m0) THEN m0
        ELSE IF at(m, 0).tag = "String" THEN concatenate(m)
        ELSE binary(m, ValueAdd(at(m, 1), at(m, 0)))

\* OpSubtract that takes the top of the stack as its left operand.
OpSubtractArm_Swapped(m) == binary(m, ValueSub(at(m, 0), at(m, 1)))

OpSubtractArm(m) == binary(m, ValueSub(at(m, 1), at(m, 0)))

OpMultiplyArm(m) == binary(m, ValueMul(at(m, 1), at(m, 0)))

OpDivideArm(m) == binary(m, ValueDiv(at(m, 1), at(m, 0)))

OpPowerArm(m) == binary(m, ValuePow(at(m, 1), at(m, 0)))

OpNegateArm(m) == unary(m, ValueNeg(at(m, 0)))

OpNilArm(m) == push(m, Nil)

OpTrueArm(m) == push(m, Boolean(TRUE))

OpFalseArm(m) == push(m, Boolean(FALSE))

OpNotArm(m) == unary(m, ValueNot(at(m, 0)))

OpEqualEqualArm(m) == binary(m, Boolean(ValueEq(at(m, 1), at(m, 0))))

OpGreaterArm(m) == binary(m, ValueGreater(at(m, 1), at(m, 0)))

OpLessArm(m) == binary(m, ValueLess(at(m, 1), at(m, 0)))

\* OpPrint that writes the value to the standard output without collecting it.
OpPrintArm_NotCollected(m) ==
    LET m1 == pop(m)
    IN  IF ~Live(m1) THEN m1 ELSE [m1 EXCEPT !.stdout = Append(@, at(m, 0))]

OpPrintArm(m) ==
    LET m1 == pop(m)
    IN  IF ~Live(m1) THEN m1
        ELSE [m1 EXCEPT !.print_outputs = Append(@, at(m, 0)),
                        !.stdout = Append(@, at(m, 0))]

OpPopArm(m) == pop(m)

\* OpConstant that leaves ip on its operand.
OpConstantArm_KeepsOperand(m) ==
    LET m1 == get_constant(read_byte(m), byte(m))
    IN  IF ~Live(m1) THEN m1
        ELSE push([m1 EXCEPT !.ip = m.ip], constant(m, byte(m).idx))

OpConstantArm(m) ==
    LET m1 == get_constant(read_byte(m), byte(m))
    IN  IF ~Live(m1) THEN m1 ELSE push(m1, constant(m, byte(m).idx))

\* OpDefineGlobal that leaves the value it has bound on the stack.
OpDefineGlobalArm_NoPop(m) ==
    LET m1 == peek(get_constant(read_byte(m), byte(m)), 0)
    IN  IF ~Live(m1) THEN m1
        ELSE LET c == constant(m, byte(m).idx)
             IN  IF c.tag = "Identifier" THEN insert(m1, c.idx, at(m1, 0)) ELSE m1

OpDefineGlobalArm(m) ==
    LET m1 == peek(get_constant(read_byte(m), byte(m)), 0)
    IN  IF ~Live(m1) THEN m1
        ELSE LET c == constant(m, byte(m).idx)
             IN  pop(IF c.tag = "Identifier" THEN insert(m1, c.idx, at(m1, 0)) ELSE m1)

\* OpGetGlobal that reads an unbound identifier as Nil.
OpGetGlobalArm_DefaultsToNil(m) ==
    LET m1 == get_constant(read_byte(m), byte(m))
    IN  IF ~Live(m1) THEN m1
        ELSE LET c == constant(m, byte(m).idx)
             IN  IF c.tag = "Identifier"
                 THEN IF c.idx \in DOMAIN m1.globals
                      THEN push(m1, m1.globals[c.idx])
                      ELSE push(m1, Nil)
                 ELSE return(m1, RuntimeErr("Invalid global variable"))

\* OpGetGlobal that binds an unbound identifier to Nil and pushes Nil.
OpGetGlobalArm_BindsUnbound(m) ==
    LET m1 == get_constant(read_byte(m), byte(m))
    IN  IF ~Live(m1) THEN m1
        ELSE LET c == constant(m, byte(m).idx)
             IN  IF c.tag = "Identifier"
                 THEN IF c.idx \in DOMAIN m1.globals
                      THEN push(m1, m1.globals[c.idx])
                      ELSE push(insert(m1, c.idx, Nil), Nil)
                 ELSE return(m1, RuntimeErr("Invalid global variable"))

OpGetGlobalArm(m) ==
    LET m1 == get_constant(read_byte(m), byte(m))
    IN  IF ~Live(m1) THEN m1
        ELSE LET c == constant(m, byte(m).idx)
             IN  IF c.tag = "Identifier"
                 THEN IF c.idx \in DOMAIN m1.globals
                      THEN push(m1, m1.globals[c.idx])
                      ELSE return(m1, RuntimeErr("Undefined global variable"))
                 ELSE return(m1, RuntimeErr("Invalid global variable"))

\* OpSetGlobal that sets the value only if the identifier is bound (the TODO
\* of the arm), and is an error otherwise.
OpSetGlobalArm_OnlyIfDefined(m) ==
    LET m1 == get_constant(read_byte(m), byte(m))
    IN  IF ~Live(m1) THEN m1
        ELSE LET c == constant(m, byte(m).idx)
             IN  IF c.tag = "Identifier"
                 THEN LET m2 == peek(m1, 0)
                      IN  IF ~Live(m2) THEN m2
                          ELSE IF c.idx \in DOMAIN m2.globals
                          THEN insert(m2, c.idx, at(m2, 0))
                          ELSE return(m2, RuntimeErr("Undefined global variable"))
                 ELSE return(m1, RuntimeErr("Invalid global variable"))

\* OpSetGlobal that leaves the binding of an identifier already bound as it is.
OpSetGlobalArm_KeepsBinding(m) ==
    LET m1 == get_constant(read_byte(m), byte(m))
    IN  IF ~Live(m1) THEN m1
        ELSE LET c == constant(m, byte(m).idx)
             IN  IF c.tag = "Identifier"
                 THEN LET m2 == peek(m1, 0)
                      IN  IF ~Live(m2) THEN m2
                          ELSE IF c.idx \in DOMAIN m2.globals
                          THEN m2
                          ELSE insert(m2, c.idx, at(m2, 0))
                 ELSE return(m1, RuntimeErr("Invalid global variable"))

OpSetGlobalArm(m) ==
    LET m1 == get_constant(read_byte(m), byte(m))
    IN  IF ~Live(m1) THEN m1
        ELSE LET c == constant(m, byte(m).idx)
             IN  IF c.tag = "Identifier"
                 THEN LET m2 == peek(m1, 0)
                      IN  IF ~Live(m2) THEN m2 ELSE insert(m2, c.idx, at(m2, 0))
                 ELSE return(m1, RuntimeErr("Invalid global variable"))

\* OpCall whose backward pushes a value like relu and grad do.
OpCallArm_BackwardPushes(m) ==
    LET m1 == get_constant(pop(read_byte(m)), byte(m))
        caller == at(m, 0)
    IN  IF ~Live(m1) THEN m1
        ELSE LET c == constant(m, byte(m).idx)
             IN  IF c.tag # "Identifier" THEN return(m1, RuntimeErr("Invalid function"))
                 ELSE IF caller.tag # "Tensor" THEN return(m1, RuntimeErr("Invalid function"))
                 ELSE LET calle_str == Lookup(m1.interner, c.idx)
                      IN  CASE calle_str = "relu" ->
                                 push([m1 EXCEPT !.tensors = TensorRelu(@, caller.ref)],
                                      Tensor(Len(m1.tensors) + 1))
                            [] calle_str = "backward" ->
                                 push([m1 EXCEPT !.tensors = TensorBackward(@, caller.ref)], Nil)
                            [] calle_str = "grad" ->
                                 push([m1 EXCEPT !.tensors = TensorGradient(@, caller.ref)],
                                      Tensor(Len(m1.tensors) + 1))
                            [] OTHER ->
                                 return(m1, RuntimeErr(
                                     "Undefined function. Currently only supports relu, backward and grad"))

OpCallArm(m) ==
    LET m1 == get_constant(pop(read_byte(m)), byte(m))
        caller == at(m, 0)
    IN  IF ~Live(m1) THEN m1
        ELSE LET c == constant(m, byte(m).idx)
             IN  IF c.tag # "Identifier" THEN return(m1, RuntimeErr("Invalid function"))
                 ELSE IF caller.tag # "Tensor" THEN return(m1, RuntimeErr("Invalid function"))
                 ELSE LET calle_str == Lookup(m1.interner, c.idx)
                      IN  CASE calle_str = "relu" ->
                                 push([m1 EXCEPT !.tensors = TensorRelu(@, caller.ref)],
                                      Tensor(Len(m1.tensors) + 1))
                            [] calle_str = "backward" ->
                                 [m1 EXCEPT !.tensors = TensorBackward(@, caller.ref)]
                            [] calle_str = "grad" ->
                                 push([m1 EXCEPT !.tensors = TensorGradient(@, caller.ref)],
                                      Tensor(Len(m1.tensors) + 1))
                            [] OTHER ->
                                 return(m1, RuntimeErr(
                                     "Undefined function. Currently only supports relu, backward and grad"))

\* `VectorType::Constant(_) => {}`
ConstantArm(m) == m

\* ------------------------------------------------------------------------
\* The state machine
\* ------------------------------------------------------------------------

NoValue == [tag |-> "None"]

NoElement == [kind |-> "None"]

\* The history entry of the instruction about to be fetched: where it is, what
\* it and the element after it are, and the stack it finds.
LogEntry ==
    [ip |-> ip,
     instr |-> chunk.code[ip + 1],
     operand |-> IF ip + 1 < Len(chunk.code) THEN chunk.code[ip + 2] ELSE NoElement,
     stack_top |-> stack_top,
     top |-> IF stack_top > 0 THEN stack[stack_top - 1] ELSE NoValue]

\* VM::init(chunk, interner) for a chunk of programs, and the entry of run.
InitOn(programs) ==
    /\ chunk \in {[code |-> c, constants |-> Pool] : c \in programs}
    /\ ip = 0
    /\ stack = [i \in 0..(STACK_MAX - 1) |-> Nil]
    /\ stack_top = 0
    /\ interner = BaseInterner
    /\ globals = [h \in {} |-> Nil]
    /\ tensors = BaseTensors
    /\ print_outputs = <<>>
    /\ stdout = <<>>
    /\ pc = "run"
    /\ result = NoResult
    /\ fault = "none"
    /\ executed = <<>>

Init == InitOn(Programs)

\* The machine mm becomes the state.
Commit(mm) ==
    \E m \in {mm} :
        /\ chunk' = m.chunk
        /\ ip' = m.ip
        /\ stack' = m.stack
        /\ stack_top' = m.stack_top
        /\ interner' = m.interner
        /\ globals' = m.globals
        /\ tensors' = m.tensors
        /\ print_outputs' = m.print_outputs
        /\ stdout' = m.stdout
        /\ pc' = m.pc
        /\ result' = m.result
        /\ fault' = m.fault

\* The loop is at an instruction that is element.
Fetches(element) ==
    /\ pc = "run"
    /\ ip < Len(chunk.code)
    /\ chunk.code[ip + 1] = element
    /\ executed' = Append(executed, LogEntry)

DoOpReturn == Fetches(Code("OpReturn")) /\ Commit(OpReturnArm(read_byte(self)))

DoOpAdd == Fetches(Code("OpAdd")) /\ Commit(OpAddArm(read_byte(self)))

DoOpSubtract == Fetches(Code("OpSubtract")) /\ Commit(OpSubtractArm(read_byte(self)))

DoOpMultiply == Fetches(Code("OpMultiply")) /\ Commit(OpMultiplyArm(read_byte(self)))

DoOpDivide == Fetches(Code("OpDivide")) /\ Commit(OpDivideArm(read_byte(self)))

DoOpPower == Fetches(Code("OpPower")) /\ Commit(OpPowerArm(read_byte(self)))

DoOpNegate == Fetches(Code("OpNegate")) /\ Commit(OpNegateArm(read_byte(self)))

DoOpNil == Fetches(Code("OpNil")) /\ Commit(OpNilArm(read_byte(self)))

DoOpTrue == Fetches(Code("OpTrue")) /\ Commit(OpTrueArm(read_byte(self)))

DoOpFalse == Fetches(Code("OpFalse")) /\ Commit(OpFalseArm(read_byte(self)))

DoOpNot == Fetches(Code("OpNot")) /\ Commit(OpNotArm(read_byte(self)))

DoOpEqualEqual == Fetches(Code("OpEqualEqual")) /\ Commit(OpEqualEqualArm(read_byte(self)))

DoOpGreater == Fetches(Code("OpGreater")) /\ Commit(OpGreaterArm(read_byte(self)))

DoOpLess == Fetches(Code("OpLess")) /\ Commit(OpLessArm(read_byte(self)))

DoOpPrint == Fetches(Code("OpPrint")) /\ Commit(OpPrintArm(read_byte(self)))

DoOpPop == Fetches(Code("OpPop")) /\ Commit(OpPopArm(read_byte(self)))

DoOpConstant == Fetches(Code("OpConstant")) /\ Commit(OpConstantArm(read_byte(self)))

DoOpDefineGlobal == Fetches(Code("OpDefineGlobal")) /\ Commit(OpDefineGlobalArm(read_byte(self)))

DoOpGetGlobal == Fetches(Code("OpGetGlobal")) /\ Commit(OpGetGlobalArm(read_byte(self)))

DoOpSetGlobal == Fetches(Code("OpSetGlobal")) /\ Commit(OpSetGlobalArm(read_byte(self)))

DoOpCall == Fetches(Code("OpCall")) /\ Commit(OpCallArm(read_byte(self)))

DoConstant ==
    /\ \E idx \in 0..Len(Pool) : Fetches(Constant(idx))
    /\ Commit(ConstantArm(read_byte(self)))

\* read_byte at the top of the loop with ip past the last element.
ReadPastEnd ==
    /\ pc = "run"
    /\ ip >= Len(chunk.code)
    /\ Commit(read_byte(self))
    /\ UNCHANGED executed

Next ==
    \/ DoOpReturn
    \/ DoOpAdd
    \/ DoOpSubtract
    \/ DoOpMultiply
    \/ DoOpDivide
    \/ DoOpPower
    \/ DoOpNegate
    \/ DoOpNil
    \/ DoOpTrue
    \/ DoOpFalse
    \/ DoOpNot
    \/ DoOpEqualEqual
    \/ DoOpGreater
    \/ DoOpLess
    \/ DoOpPrint
    \/ DoOpPop
    \/ DoOpConstant
    \/ DoOpDefineGlobal
    \/ DoOpGetGlobal
    \/ DoOpSetGlobal
    \/ DoOpCall
    \/ DoConstant
    \/ ReadPastEnd

Spec == Init /\ [][Next]_vars

\* The history entry of a call of interpret: how the call before it ended.
InterpretEntry ==
    [ip |-> ip,
     instr |-> [kind |-> "Interpret", ended |-> result.kind],
     operand |-> NoElement,
     stack_top |-> stack_top,
     top |-> NoValue]

IsInterpretEntry(e) == e.instr.kind = "Interpret"

\* The calls of interpret made on the VM so far.
Calls == 1 + Len(SelectSeq(executed, IsInterpretEntry))

\* VM::interpret, called on a VM whose call before has returned, in a session
\* whose lines are those of ReplLines: the chunk of the line replaces the
\* chunk, and run executes it from its first element; the interner and
\* globals are those the call before left.
Interpret ==
    /\ pc = "returned"
    /\ Calls < MaxCalls
    /\ chunk.code \in ReplLines
    /\ chunk' \in {[code |-> line, constants |-> Pool] : line \in ReplLines}
    /\ ip' = 0
    /\ print_outputs' = <<>>
    /\ pc' = "run"
    /\ result' = NoResult
    /\ executed' = Append(executed, InterpretEntry)
    /\ UNCHANGED <<stack, stack_top, interner, globals, tensors, stdout, fault>>

ReplNext == Next \/ Interpret

\* An interactive session: run_repl creates one VM and calls interpret on it
\* line after line.
ReplSpec == Init /\ [][ReplNext]_vars

\* run is a sequential loop: as long as it has neither returned nor been
\* unwound it executes its next iteration.
FairSpec == InitOn(FairPrograms) /\ [][Next]_vars /\ WF_vars(Next)

\* ------------------------------------------------------------------------
\* Properties
\* ------------------------------------------------------------------------

\* The history entry of the instruction fetched last.
LastExecuted == executed[Len(executed)]

IsPrint(e) == e.instr = Code("OpPrint") /\ e.stack_top > 0

\* The values popped by the OpPrint instructions executed so far, in order.
PrintedValues ==
    LET prints == SelectSeq(executed, IsPrint)
    IN  [i \in 1..Len(prints) |-> prints[i].top]

\* C1: when run reaches OpReturn it returns Ok(outputs), where outputs is the
\* sequence of the values popped by the OpPrint instructions executed before,
\* in execution order: one entry per executed OpPrint and no other entry.
C1_ReturnsPrintedValues ==
    (Len(executed) > 0 /\ LastExecuted.instr = Code("OpReturn"))
        => (pc = "returned" /\ result = Ok(PrintedValues))

\* A run that has returned two different printed values, in the order printed,
\* with other instructions executed between the two prints.
C1_Witness ==
    /\ pc = "returned"
    /\ result.kind = "Ok"
    /\ Len(result.outputs) = 2
    /\ result.outputs[1] # result.outputs[2]
    /\ \E i, j, k \in 1..Len(executed) :
          /\ i < j /\ j < k
          /\ IsPrint(executed[i]) /\ executed[i].top = result.outputs[1]
          /\ ~IsPrint(executed[j])
          /\ IsPrint(executed[k]) /\ executed[k].top = result.outputs[2]

\* C2: in every state of a run of a program of the shape the compiler emits,
\* 0 <= stack_top <= STACK_MAX and no push is performed with stack_top =
\* STACK_MAX.
C2_NoPushAtCapacity ==
    chunk.code \in CompiledPrograms
        => (0 <= stack_top /\ stack_top <= STACK_MAX /\ fault # "stack overflow")

\* C3: in a run of a program built from the statement shapes of the compiler,
\* no opcode pops or peeks more values than are on the stack, and stack_top is
\* 0 when execution reaches OpReturn.
C3_StackDiscipline ==
    chunk.code \in CompiledPrograms
        => /\ fault # "stack underflow"
           /\ (pc = "returned" /\ result.kind = "Ok") => stack_top = 0

\* C4 as claimed: when run ends with a RuntimeErr after k OpPrint instructions
\* have executed, the returned result carries the sequence of the k printed
\* values.
C4_ErrorCarriesOutputs ==
    result.kind = "RuntimeErr"
        => ("outputs" \in DOMAIN result /\ result.outputs = PrintedValues)

\* C4 as amended: when run ends with a RuntimeErr after k OpPrint instructions
\* have executed, the returned result carries an error message and nothing
\* else; the k printed values were collected by run and written to the
\* standard output, in order, before the fault, and are not part of the result.
C4_ErrorCarriesMessageOnly ==
    result.kind = "RuntimeErr"
        => /\ pc = "returned"
           /\ DOMAIN result = {"kind", "message"}
           /\ stdout = PrintedValues
           /\ print_outputs = PrintedValues

\* A run that ended with a RuntimeErr after it had printed.
C4_Witness ==
    /\ pc = "returned"
    /\ result.kind = "RuntimeErr"
    /\ Len(PrintedValues) >= 1

\* The loop is about to fetch the instruction op.
AtInstr(op) == pc = "run" /\ ip < Len(chunk.code) /\ chunk.code[ip + 1] = Code(op)

\* The element after the instruction is a Constant of the pool.
HasOperand ==
    /\ ip + 1 < Len(chunk.code)
    /\ chunk.code[ip + 2].kind = "Constant"
    /\ chunk.code[ip + 2].idx < Len(chunk.constants)

\* The constant the operand refers to.
OperandValue == chunk.constants[chunk.code[ip + 2].idx + 1]

IdentifierOperand == HasOperand /\ OperandValue.tag = "Identifier"

\* The value on top of the stack.
Top == stack[stack_top - 1]

\* globals with h bound to v and every other binding as it is.
Bound(h, v) == [g \in DOMAIN globals \cup {h} |-> IF g = h THEN v ELSE globals[g]]

Contains(s, sub) ==
    \E i \in 1..(Len(s) - Len(sub) + 1) : SubSeq(s, i, i + Len(sub) - 1) = sub

\* The history entry e is an OpDefineGlobal or OpSetGlobal that bound h.
IsBinding(e, h) ==
    /\ e.instr \in {Code("OpDefineGlobal"), Code("OpSetGlobal")}
    /\ e.operand.kind = "Constant"
    /\ e.operand.idx < Len(chunk.constants)
    /\ chunk.constants[e.operand.idx + 1] = Identifier(h)
    /\ e.stack_top > 0

HasBound(h) == \E i \in 1..Len(executed) : IsBinding(executed[i], h)

\* The value most recently bound to h by an OpDefineGlobal or OpSetGlobal.
LastBound(h) ==
    LET i == CHOOSE i \in 1..Len(executed) :
                /\ IsBinding(executed[i], h)
                /\ \A j \in (i + 1)..Len(executed) : ~IsBinding(executed[j], h)
    IN  executed[i].top

\* The loop is about to fetch an OpGetGlobal of an identifier without a binding.
GetsUndefinedGlobal ==
    AtInstr("OpGetGlobal") /\ IdentifierOperand /\ OperandValue.idx \notin DOMAIN globals

\* The step returns a RuntimeErr and touches neither the stack nor globals.
StopsWithRuntimeErr ==
    /\ pc' = "returned"
    /\ result'.kind = "RuntimeErr"
    /\ stack' = stack
    /\ stack_top' = stack_top
    /\ globals' = globals

\* C5 as claimed: OpGetGlobal on an identifier that has no binding makes run
\* stop with a RuntimeErr whose message contains "undefined global variable";
\* nothing is pushed, globals is unchanged and no later instruction executes.
C5_MessageContainsLowerCase ==
    [][/\ pc = "run"
       /\ GetsUndefinedGlobal
             => /\ StopsWithRuntimeErr
                /\ Contains(result'.message, "undefined global variable")]_vars

\* C5 as amended: OpGetGlobal on an identifier that has no binding makes run
\* stop with a RuntimeErr whose message is "Undefined global variable", with a
\* capital U; nothing is pushed, globals is unchanged and no later instruction
\* executes (every step of the machine starts in the loop).
C5_UndefinedGlobalStops ==
    [][/\ pc = "run"
       /\ GetsUndefinedGlobal
             => /\ StopsWithRuntimeErr
                /\ result'.message = "Undefined global variable"]_vars

\* A run stopped by OpGetGlobal on an unbound identifier while another
\* identifier is bound.
C5_Witness ==
    /\ pc = "returned"
    /\ result = RuntimeErr("Undefined global variable")
    /\ LastExecuted.instr = Code("OpGetGlobal")
    /\ DOMAIN globals # {}
    /\ stack_top = LastExecuted.stack_top

\* C6: OpGetGlobal for an identifier pushes (given room on the stack) exactly
\* the value most recently bound to it by an OpDefineGlobal or OpSetGlobal,
\* whatever was bound to other identifiers since, and leaves globals unchanged.
C6_GlobalRoundTrip ==
    [][(AtInstr("OpGetGlobal") /\ IdentifierOperand /\ HasBound(OperandValue.idx)
            /\ stack_top < STACK_MAX)
          => /\ pc' = "run"
             /\ stack_top' = stack_top + 1
             /\ stack' = [stack EXCEPT ![stack_top] = LastBound(OperandValue.idx)]
             /\ globals' = globals]_vars

\* OpGetGlobal has pushed the value of an identifier that was bound twice, to
\* two different values.
C6_Witness ==
    /\ pc = "run"
    /\ Len(executed) > 0
    /\ LastExecuted.instr = Code("OpGetGlobal")
    /\ stack_top = LastExecuted.stack_top + 1
    /\ \E h \in DOMAIN globals, i, j \in 1..(Len(executed) - 1) :
          /\ LastExecuted.operand = Constant(K(Identifier(h)))
          /\ i < j
          /\ IsBinding(executed[i], h) /\ IsBinding(executed[j], h)
          /\ executed[i].top # executed[j].top
          /\ Top = executed[j].top

C8_DefineGlobalBindsAndPops ==
    [][(AtInstr("OpDefineGlobal") /\ IdentifierOperand /\ stack_top > 0)
          => /\ pc' = "run"
             /\ globals' = Bound(OperandValue.idx, Top)
             /\ stack_top' = stack_top - 1
             /\ stack' = stack]_vars

\* OpDefineGlobal has rebound an identifier to another value while another
\* identifier keeps its binding.
C8_Witness ==
    /\ pc = "run"
    /\ Len(executed) > 0
    /\ LastExecuted.instr = Code("OpDefineGlobal")
    /\ stack_top = LastExecuted.stack_top - 1
    /\ Cardinality(DOMAIN globals) >= 2
    /\ \E h \in DOMAIN globals, i \in 1..(Len(executed) - 1) :
          /\ LastExecuted.operand = Constant(K(Identifier(h)))
          /\ IsBinding(executed[i], h)
          /\ executed[i].top # LastExecuted.top
          /\ globals[h] = LastExecuted.top

\* C9: OpAdd with two String values on top of the stack, a below b, pops both
\* and pushes one String whose handle h names lookup(a) followed by lookup(b):
\* the handle that text already had if it was interned before, and otherwise
\* a new handle, distinct from all earlier ones; every handle issued before
\* names the text it named.
C9_StringConcatenation ==
    [][(AtInstr("OpAdd") /\ stack_top >= 2 /\ Top.tag = "String"
            /\ stack[stack_top - 2].tag = "String")
          => LET a == stack[stack_top - 2]
                 b == Top
                 text == interner[a.idx] \o interner[b.idx]
                 pushed == stack'[stack_top - 2]
                 known == \E i \in 1..Len(interner) : interner[i] = text
             IN  /\ pc' = "run"
                 /\ stack_top' = stack_top - 1
                 /\ \A i \in 0..(stack_top - 3) : stack'[i] = stack[i]
                 /\ pushed.tag = "String"
                 /\ pushed.idx \in 1..Len(interner')
                 /\ interner'[pushed.idx] = text
                 /\ \A i \in 1..Len(interner) : interner'[i] = interner[i]
                 /\ known => (interner' = interner /\ interner[pushed.idx] = text)
                 /\ ~known => (pushed.idx \notin 1..Len(interner)
                               /\ Len(interner') = Len(interner) + 1)]_vars

\* OpAdd has concatenated "b" and "a" to a text that was not interned before.
C9_Witness ==
    /\ pc = "run"
    /\ Len(executed) > 0
    /\ LastExecuted.instr = Code("OpAdd")
    /\ LastExecuted.top = String(Handle("a"))
    /\ stack_top = LastExecuted.stack_top - 1
    /\ Len(interner) = Len(BaseInterner) + 1
    /\ Top = String(Len(interner))
    /\ interner[Len(interner)] = "ba"

MentionsFunction(message) ==
    Contains(message, "Invalid function") \/ Contains(message, "Undefined function")

\* C10: OpCall pops exactly one receiver and dispatches on the method-name
\* constant: with a Tensor receiver, relu and grad each push exactly one Tensor
\* and backward pushes nothing; with a receiver that is not a Tensor, or any
\* other method name, run returns a RuntimeErr that mentions an invalid or
\* undefined function, and nothing is pushed.
C10_CallDispatch ==
    [][(AtInstr("OpCall") /\ HasOperand /\ stack_top > 0)
          => LET c == OperandValue
                 onTensor == c.tag = "Identifier" /\ Top.tag = "Tensor"
             IN  IF onTensor /\ interner[c.idx] \in {"relu", "grad"}
                 THEN /\ pc' = "run"
                      /\ stack_top' = stack_top
                      /\ stack'[stack_top - 1].tag = "Tensor"
                      /\ \A i \in 0..(stack_top - 2) : stack'[i] = stack[i]
                 ELSE IF onTensor /\ interner[c.idx] = "backward"
                 THEN /\ pc' = "run"
                      /\ stack_top' = stack_top - 1
                      /\ stack' = stack
                 ELSE /\ pc' = "returned"
                      /\ result'.kind = "RuntimeErr"
                      /\ MentionsFunction(result'.message)
                      /\ stack_top' = stack_top - 1
                      /\ stack' = stack]_vars

\* OpCall has run backward on a Tensor receiver: the receiver is popped and
\* nothing is pushed.
C10_Witness ==
    /\ pc = "run"
    /\ Len(executed) > 0
    /\ LastExecuted.instr = Code("OpCall")
    /\ LastExecuted.operand = Constant(Id("backward"))
    /\ LastExecuted.top.tag = "Tensor"
    /\ stack_top = LastExecuted.stack_top - 1

\* The two values a binary opcode takes: a below b, b on top of the stack.
LeftOperand == stack[stack_top - 2]

RightOperand == stack[stack_top - 1]

\* The value a step that popped two values and pushed one has left on top.
Pushed == stack'[stack_top - 2]

\* C11: OpGreater and OpLess applied to operands that are not both Number make
\* run return a RuntimeErr, and push no Boolean.
C11_OrderingRejectsNonNumbers ==
    [][((AtInstr("OpGreater") \/ AtInstr("OpLess")) /\ stack_top >= 2
            /\ ~(IsNumber(LeftOperand) /\ IsNumber(RightOperand)))
          => /\ pc' = "returned"
             /\ result'.kind = "RuntimeErr"
             /\ stack_top' # stack_top - 1]_vars

\* The net stack effect of an opcode that has no operand.
Effect(op) ==
    CASE op \in {"OpNil", "OpTrue", "OpFalse"} -> 1
      [] op \in {"OpNegate", "OpNot"} -> 0
      [] op \in {"OpPrint", "OpPop"} \cup BinaryOps -> -1

\* The net stack effect of an opcode with the operand constant c.
OperandEffect(op, c) ==
    CASE op \in {"OpConstant", "OpGetGlobal"} -> 1
      [] op = "OpSetGlobal" -> 0
      [] op = "OpDefineGlobal" -> -1
      [] op = "OpCall" -> IF interner[c.idx] = "backward" THEN -1 ELSE 0

\* C12: every opcode has a net stack effect that is fixed per opcode (and, for
\* an opcode with an operand, per operand constant) whatever the values on the
\* stack are: a step that completes without an error moves stack_top by that
\* effect.  In particular every OpAdd that completes pops two values and
\* pushes one, also with a String on top of a value that is not a String.
C12_FixedStackEffect ==
    [][(pc = "run" /\ pc' = "run" /\ ip < Len(chunk.code)
            /\ chunk.code[ip + 1].kind = "Code")
          => LET op == chunk.code[ip + 1].op
             IN  /\ op \in DOMAIN [o \in OpCodes \ (OperandOps \cup {"OpReturn"}) |-> 0]
                       => stack_top' = stack_top + Effect(op)
                 /\ op \in OperandOps
                       => stack_top' = stack_top + OperandEffect(op, OperandValue)]_vars

\* The reference operators over the integers: a op b.
Reference(op, a, b) ==
    CASE op = "OpAdd" -> Number(a + b)
      [] op = "OpSubtract" -> Number(a - b)
      [] op = "OpMultiply" -> Number(a * b)
      [] op = "OpPower" -> Number(a ^ b)
      [] op = "OpEqualEqual" -> Boolean(a = b)
      [] op = "OpGreater" -> Boolean(a > b)
      [] op = "OpLess" -> Boolean(a < b)

\* q is the quotient a / b: the fraction in lowest terms that b takes to a.
IsQuotient(q, a, b) ==
    /\ IsNumber(q)
    /\ q.den > 0
    /\ q.num * b = a * q.den
    /\ \A d \in 2..q.den : ~(q.num % d = 0 /\ q.den % d = 0)

IsInteger(v) == IsNumber(v) /\ v.den = 1

\* C13: every binary opcode takes the top of the stack as its right operand b
\* and the value below it as its left operand a, and pushes a op b in their
\* place: over integer Numbers (a divisor other than 0, an exponent of at
\* least 0) the pushed value is that of the reference operator applied in that
\* order.
C13_OperandOrder ==
    [][(pc = "run" /\ \E op \in BinaryOps : AtInstr(op)) /\ stack_top >= 2
            /\ IsInteger(LeftOperand) /\ IsInteger(RightOperand)
          => LET op == chunk.code[ip + 1].op
                 a == LeftOperand.num
                 b == RightOperand.num
             IN  /\ pc' = "run"
                 /\ stack_top' = stack_top - 1
                 /\ \A i \in 0..(stack_top - 3) : stack'[i] = stack[i]
                 /\ op = "OpDivide" /\ b # 0 => IsQuotient(Pushed, a, b)
                 /\ op = "OpPower" /\ b >= 0 => Pushed = Reference(op, a, b)
                 /\ op \notin {"OpDivide", "OpPower"} => Pushed = Reference(op, a, b)]_vars

\* OpSubtract has taken 2 from 1.
C13_Witness ==
    /\ pc = "run"
    /\ Len(executed) > 1
    /\ LastExecuted.instr = Code("OpSubtract")
    /\ LastExecuted.top = Number(2)
    /\ stack_top = LastExecuted.stack_top - 1
    /\ Top = Number(-1)

\* The loop is about to fetch an opcode that takes an operand.
AtOperandOp ==
    /\ pc = "run"
    /\ ip < Len(chunk.code)
    /\ chunk.code[ip + 1].kind = "Code"
    /\ chunk.code[ip + 1].op \in OperandOps

\* The instruction is followed by an element, and that element is no Constant.
MalformedOperand == ip + 1 < Len(chunk.code) /\ chunk.code[ip + 2].kind # "Constant"

\* C14: when an opcode that takes an operand is immediately followed by an
\* element that is not a Constant, run returns a RuntimeErr and changes neither
\* globals nor the output sequence; for every such opcode but OpCall the stack
\* is unchanged as well.
C14_MalformedConstantReference ==
    [][(AtOperandOp /\ MalformedOperand)
          => /\ pc' = "returned"
             /\ result'.kind = "RuntimeErr"
             /\ globals' = globals
             /\ print_outputs' = print_outputs
             /\ chunk.code[ip + 1].op # "OpCall"
                   => (stack' = stack /\ stack_top' = stack_top)]_vars

\* Each opcode that takes an operand is immediately followed by a Constant
\* element, and no Constant element appears elsewhere.
WellEncoded(code) ==
    \A i \in 1..Len(code) :
        /\ (code[i].kind = "Code" /\ code[i].op \in OperandOps)
              => (i < Len(code) /\ code[i + 1].kind = "Constant")
        /\ code[i].kind = "Constant"
              => (i > 1 /\ code[i - 1].kind = "Code" /\ code[i - 1].op \in OperandOps)

\* C15: in a chunk in which each opcode that takes an operand is immediately
\* followed by exactly one Constant and no Constant appears elsewhere, the
\* element fetched at the start of each loop iteration is a Code element, never
\* a Constant, and the iteration advances ip by exactly 2 if the opcode takes
\* an operand and by exactly 1 otherwise.
C15_DispatchOnCode ==
    [][(pc = "run" /\ ip < Len(chunk.code) /\ WellEncoded(chunk.code))
          => /\ chunk.code[ip + 1].kind = "Code"
             /\ ip' = ip + (IF chunk.code[ip + 1].op \in OperandOps THEN 2 ELSE 1)]_vars

\* An opcode without an operand and then one with an operand have executed in
\* a well-encoded chunk, and the loop is at the instruction after the operand.
C15_Witness ==
    /\ WellEncoded(chunk.code)
    /\ AtInstr("OpEqualEqual")
    /\ Len(executed) = 2
    /\ executed[1].instr = Code("OpNil")
    /\ executed[2].instr = Code("OpConstant")
    /\ executed[2].ip = executed[1].ip + 1
    /\ ip = executed[2].ip + 2

\* C18: globals is empty when the VM is created and is changed only by
\* OpDefineGlobal and OpSetGlobal: every step of any other opcode, and every
\* step that ends in a RuntimeErr, leaves it unchanged.
C18_GlobalsFrame ==
    /\ DOMAIN globals = {}
    /\ [][/\ globals' # globals => (AtInstr("OpDefineGlobal") \/ AtInstr("OpSetGlobal"))
          /\ (pc' = "returned" /\ result'.kind = "RuntimeErr") => globals' = globals]_vars

\* A run that bound an identifier, then executed OpGetGlobal and OpCall, and
\* ended in a RuntimeErr with the binding as it was made.
C18_Witness ==
    /\ pc = "returned"
    /\ result.kind = "RuntimeErr"
    /\ \E h \in DOMAIN globals, i, j, k \in 1..Len(executed) :
          /\ i < j /\ j < k
          /\ IsBinding(executed[i], h)
          /\ globals[h] = executed[i].top
          /\ executed[j].instr = Code("OpGetGlobal")
          /\ executed[k].instr = Code("OpCall")

\* C19: all three global opcodes treat an operand constant that is not an
\* Identifier the same way: with a value on the stack, run returns the
\* RuntimeErr "Invalid global variable" and leaves globals and the stack
\* unchanged.
C19_NonIdentifierOperand ==
    [][((\E op \in GlobalOps : AtInstr(op)) /\ HasOperand
            /\ OperandValue.tag # "Identifier" /\ stack_top > 0)
          => /\ pc' = "returned"
             /\ result' = RuntimeErr("Invalid global variable")
             /\ globals' = globals
             /\ stack' = stack
             /\ stack_top' = stack_top]_vars

\* The chunk ends with OpReturn.
EndsWithReturn(code) == Len(code) > 0 /\ code[Len(code)] = Code("OpReturn")

\* The chunk is finite, well encoded and ends with OpReturn.
Terminating == WellEncoded(chunk.code) /\ EndsWithReturn(chunk.code)

\* run has ended: it has returned a Result, or an error has unwound it.
Ended == pc \in {"returned", "panicked"}

\* C17: ip strictly increases on every loop iteration, so for every chunk that
\* is well encoded and ends with OpReturn, run ends (it returns Ok, which it
\* does at OpReturn only, or it ends with an error: a returned RuntimeErr or a
\* panic that unwinds it) after at most Len(chunk.code) fetches, and never
\* reads an element at ip >= Len(chunk.code).
C17_Termination ==
    /\ [][(pc = "run" /\ Terminating) => (ip' > ip /\ ip' <= Len(chunk.code))]_vars
    /\ [](Terminating
            => /\ pc = "run" => ip < Len(chunk.code)
               /\ fault # "code index out of bounds"
               /\ Len(executed) <= ip
               /\ (pc = "returned" /\ result.kind = "Ok")
                     => LastExecuted.instr = Code("OpReturn"))
    /\ Terminating ~> Ended

\* A run of a program of two statements has returned Ok at the OpReturn that
\* ends its chunk.
C17_Witness ==
    /\ Terminating
    /\ pc = "returned"
    /\ result.kind = "Ok"
    /\ ip = Len(chunk.code)
    /\ Len(executed) >= 5

====
